---- MODULE Spec2Model ----
(***************************************************************************)
(* A model of the trending-stock dashboard backend:                        *)
(*   - the live price reconciler (useFinnhubWebSocket),                    *)
(*   - the database-first quote / OHLCV resolution layer                   *)
(*     (getStockDataWithOHLCV, saveBatchOHLCVData,                         *)
(*     updateDailyOHLCVFromQuote, the data-collection route),              *)
(*   - the retention decision of calculateTrendingDimensions.              *)
(* Each part has its own specification over the shared variables; the      *)
(* variables of the other parts stay unchanged in it.                      *)
(***************************************************************************)
EXTENDS Integers, Sequences, FiniteSets, TLC

VARIABLES
    \* ---- live price reconciler (useFinnhubWebSocket) ----
    apiKey,             \* NEXT_PUBLIC_FINNHUB_API_KEY is set
    mounted,            \* the effect's cleanup has not run yet
    timer,              \* the initial setTimeout(connect, 100) is pending
    reconnectTimeout,   \* a reconnect timer is pending
    wsState,            \* readyState of the socket wsRef points to, "NONE" when wsRef is null
    isConnected,
    subscribedSymbols,  \* subscribedSymbolsRef.current
    serverSubs,         \* symbols subscribed on the current connection (messages sent on it)
    stale,              \* symbols unsubscribed on the current connection (trades may be in flight)
    priceReferenceMap,  \* module-level Map symbol -> previous close
    prices,             \* React state Map symbol -> PriceUpdate
    lastCall,           \* the handler or call run last, with its arguments
    \* ---- quote resolution layer ----
    stock_ohlcv,        \* the table, a sequence of rows
    today,              \* the calendar day new Date() falls on (one day is modelled)
    tasks,              \* the asynchronous calls in flight, one record per slot
    batch,              \* the getStockDataForMultipleSymbols call in flight
    resolved,           \* per symbol, the last value getStockDataWithOHLCV returned
    lastOp,             \* the step taken last and what it returned
    \* ---- retention decision ----
    dims,               \* the dimensions the decision is evaluated on
    decision,           \* the decision made last
    \* ---- trending collection ----
    stock_trending_snapshots,  \* the table, a sequence of rows in insertion order
    now,                \* the instant new Date() returns
    run,                \* the runTrendingCollection call in flight
    trendingDimensions, \* the calculateTrendingDimensions call made last and its result
    \* ---- trending page ----
    stock_snapshots,    \* the table, a sequence of rows in insertion order
    dateNow,            \* what Date.now() returns
    page,               \* the page rendered last: what it was given and what it shows
    \* ---- market hours ----
    etTime,             \* the Eastern wall-clock time new Date() converts to, in minutes
    marketStatus        \* what getMarketStatus returned last

liveVars  == <<apiKey, mounted, timer, reconnectTimeout, wsState, isConnected,
               subscribedSymbols, serverSubs, stale, priceReferenceMap, prices,
               lastCall>>
quoteVars == <<stock_ohlcv, today, tasks, batch, resolved, lastOp>>
keepVars  == <<dims, decision>>
trendVars == <<stock_trending_snapshots, now, run>>
dimVars   == <<trendingDimensions>>
pageVars  == <<stock_snapshots, dateNow, page>>
marketVars == <<etTime, marketStatus>>
vars      == <<liveVars, quoteVars, keepVars, trendVars, dimVars, pageVars,
               marketVars>>

\* The parts of the program share no state, but for the collection run,
\* which resolves quotes for the symbols it keeps.
LiveOnly  == UNCHANGED <<quoteVars, keepVars, trendVars, dimVars, pageVars,
                         marketVars>>
QuoteOnly == UNCHANGED <<liveVars, keepVars, trendVars, dimVars, pageVars,
                         marketVars>>
KeepOnly  == UNCHANGED <<liveVars, quoteVars, trendVars, dimVars, pageVars,
                         marketVars>>
TrendOnly == UNCHANGED <<liveVars, keepVars, today, tasks, batch, resolved, dimVars,
                         pageVars, marketVars>>
DimsOnly  == UNCHANGED <<liveVars, quoteVars, keepVars, trendVars, pageVars,
                         marketVars>>
PageOnly  == UNCHANGED <<liveVars, quoteVars, keepVars, trendVars, dimVars,
                         marketVars>>
MarketOnly == UNCHANGED <<liveVars, quoteVars, keepVars, trendVars, dimVars,
                          pageVars>>

Symbols == {"AAPL", "TSLA"}

----------------------------------------------------------------------------
(* Numbers.  Prices are integers; a quotient is kept as an exact fraction   *)
(* <<n, d>> in lowest terms with d > 0.                                     *)

Abs(x) == IF x < 0 THEN 0 - x ELSE x

RECURSIVE GCD(_, _)
GCD(a, b) == IF b = 0 THEN a ELSE GCD(b, a % b)

Rat(n, d) ==
    LET g == GCD(Abs(n), Abs(d))
        s == IF d < 0 THEN 0 - 1 ELSE 1
    IN  <<(s * n) \div g, (s * d) \div g>>

Zero == <<0, 1>>

RatInt(n) == <<n, 1>>

RatLess(a, b) == a[1] * b[2] < b[1] * a[2]

RatMul(a, b) == Rat(a[1] * b[1], a[2] * b[2])

RatAdd(a, b) == Rat(a[1] * b[2] + b[1] * a[2], a[2] * b[2])

RatSub(a, b) == Rat(a[1] * b[2] - b[1] * a[2], a[2] * b[2])

\* Math.sqrt(x), kept as the root of an exact fraction.
Sqrt(x) == [sqrt |-> x]

----------------------------------------------------------------------------
(* The live price reconciler.                                               *)

MaxSubs == 2      \* longest list handed to subscribe / unsubscribe
MaxTrades == 2    \* most trades in one message

Anchors == {0, 50}
TickPrices == {48, 52}
TradeTimes == {1}
CloseCodes == {1000, 1006, 1008}

SeqsUpTo(S, n) == UNION {[1..k -> S] : k \in 0..n}

Trades == [s : Symbols, p : TickPrices, t : TradeTimes]

\* JavaScript's a || b on numbers: b when a is undefined or 0.
OrElse(present, a, b) == IF present /\ a # 0 THEN a ELSE b

\* A reconciler that measures each tick against the previous tick.
ApplyTradeAgainstLastTick(prev, trade) ==
    LET currentPrice == trade.p
        lastUpdatePrice == IF trade.s \in DOMAIN prev
                           THEN prev[trade.s].price ELSE currentPrice
        update == [symbol |-> trade.s, price |-> currentPrice,
                   timestamp |-> trade.t,
                   change |-> currentPrice - lastUpdatePrice,
                   percentChange |->
                       IF lastUpdatePrice > 0
                       THEN Rat((currentPrice - lastUpdatePrice) * 100, lastUpdatePrice)
                       ELSE Zero,
                   previousClosePrice |-> lastUpdatePrice]
    IN  [x \in DOMAIN prev \cup {trade.s} |->
            IF x = trade.s THEN update ELSE prev[x]]

\* A reconciler whose delta is measured from the anchor.
ApplyTradeDeltaFromAnchor(prev, trade) ==
    LET currentPrice == trade.p
        previousClosePrice ==
            OrElse(trade.s \in DOMAIN priceReferenceMap,
                   IF trade.s \in DOMAIN priceReferenceMap
                   THEN priceReferenceMap[trade.s] ELSE 0,
                   currentPrice)
        update == [symbol |-> trade.s, price |-> currentPrice,
                   timestamp |-> trade.t,
                   change |-> currentPrice - previousClosePrice,
                   percentChange |->
                       IF previousClosePrice > 0
                       THEN Rat((currentPrice - previousClosePrice) * 100,
                                previousClosePrice)
                       ELSE Zero,
                   previousClosePrice |-> previousClosePrice]
    IN  [x \in DOMAIN prev \cup {trade.s} |->
            IF x = trade.s THEN update ELSE prev[x]]

\* The body of message.data.forEach for one trade: prev is the prices map
\* the functional setPrices update receives.
ApplyTrade(prev, trade) ==
    LET currentPrice == trade.p
        previousClosePrice ==
            OrElse(trade.s \in DOMAIN priceReferenceMap,
                   IF trade.s \in DOMAIN priceReferenceMap
                   THEN priceReferenceMap[trade.s] ELSE 0,
                   currentPrice)
        percentChange ==
            IF previousClosePrice > 0
            THEN Rat((currentPrice - previousClosePrice) * 100, previousClosePrice)
            ELSE Zero
        change == IF trade.s \in DOMAIN prev
                  THEN currentPrice - prev[trade.s].price ELSE 0
        update == [symbol |-> trade.s, price |-> currentPrice,
                   timestamp |-> trade.t, change |-> change,
                   percentChange |-> percentChange,
                   previousClosePrice |-> previousClosePrice]
    IN  [x \in DOMAIN prev \cup {trade.s} |->
            IF x = trade.s THEN update ELSE prev[x]]

RECURSIVE ApplyTrades(_, _)
ApplyTrades(prev, data) ==
    IF data = <<>> THEN prev
    ELSE ApplyTrades(ApplyTrade(prev, Head(data)), Tail(data))

Range(f) == {f[i] : i \in DOMAIN f}

NoCall == [op |-> "none"]

\* connect(): returns without a socket when the key is missing.
Connect ==
    IF apiKey
    THEN wsState' = "CONNECTING"
    ELSE wsState' = wsState

InitialTimer ==
    /\ timer
    /\ timer' = FALSE
    /\ Connect
    /\ lastCall' = NoCall
    /\ UNCHANGED <<apiKey, mounted, reconnectTimeout, isConnected,
                   subscribedSymbols, serverSubs, stale, priceReferenceMap, prices>>

ReconnectTimer ==
    /\ reconnectTimeout
    /\ reconnectTimeout' = FALSE
    /\ Connect
    /\ lastCall' = NoCall
    /\ UNCHANGED <<apiKey, mounted, timer, isConnected,
                   subscribedSymbols, serverSubs, stale, priceReferenceMap, prices>>

\* An onopen that sends nothing.
OnOpenWithoutResubscribe ==
    /\ wsState = "CONNECTING"
    /\ wsState' = "OPEN"
    /\ isConnected' = TRUE
    /\ serverSubs' = {}
    /\ stale' = {}
    /\ lastCall' = NoCall
    /\ UNCHANGED <<apiKey, mounted, timer, reconnectTimeout,
                   subscribedSymbols, priceReferenceMap, prices>>

\* ws.onopen
OnOpen ==
    /\ wsState = "CONNECTING"
    /\ wsState' = "OPEN"
    /\ isConnected' = TRUE
    /\ serverSubs' = subscribedSymbols
    /\ stale' = {}
    /\ lastCall' = NoCall
    /\ UNCHANGED <<apiKey, mounted, timer, reconnectTimeout,
                   subscribedSymbols, priceReferenceMap, prices>>

\* ws.onmessage: a trade message with an array of trades, or any other message.
OnMessage ==
    /\ wsState \in {"OPEN", "CLOSING"}
    /\ \E type \in {"trade", "ping"} :
       \E data \in SeqsUpTo(Trades, MaxTrades) :
          /\ \A i \in DOMAIN data : data[i].s \in serverSubs \cup stale
          /\ prices' = IF type = "trade" THEN ApplyTrades(prices, data) ELSE prices
    /\ lastCall' = NoCall
    /\ UNCHANGED <<apiKey, mounted, timer, reconnectTimeout, wsState, isConnected,
                   subscribedSymbols, serverSubs, stale, priceReferenceMap>>

\* An onclose that schedules a reconnect whatever the code.
OnCloseAlwaysReconnect ==
    /\ wsState \in {"CONNECTING", "OPEN", "CLOSING"}
    /\ \E code \in CloseCodes :
          /\ reconnectTimeout' = TRUE
          /\ lastCall' = [op |-> "close", code |-> code]
    /\ isConnected' = FALSE
    /\ wsState' = "NONE"
    /\ serverSubs' = {}
    /\ stale' = {}
    /\ UNCHANGED <<apiKey, mounted, timer, subscribedSymbols, priceReferenceMap, prices>>

\* ws.onclose
OnClose ==
    /\ wsState \in {"CONNECTING", "OPEN", "CLOSING"}
    /\ \E code \in CloseCodes :
          /\ reconnectTimeout' = IF code # 1008 THEN TRUE ELSE reconnectTimeout
          /\ lastCall' = [op |-> "close", code |-> code]
    /\ isConnected' = FALSE
    /\ wsState' = "NONE"
    /\ serverSubs' = {}
    /\ stale' = {}
    /\ UNCHANGED <<apiKey, mounted, timer, subscribedSymbols, priceReferenceMap, prices>>

\* The lists handed to subscribe.
SubscribeLists ==
    SeqsUpTo([symbol : Symbols, previousClosePrice : Anchors], MaxSubs)

\* A store that keeps the anchor a symbol already has.
StorePricesOnce(map, symbolsWithPrices) ==
    LET named == {symbolsWithPrices[i].symbol : i \in DOMAIN symbolsWithPrices}
        firstOf(s) == CHOOSE i \in DOMAIN symbolsWithPrices :
                         /\ symbolsWithPrices[i].symbol = s
                         /\ \A j \in DOMAIN symbolsWithPrices :
                               symbolsWithPrices[j].symbol = s => i <= j
    IN  [s \in DOMAIN map \cup named |->
            IF s \in DOMAIN map THEN map[s]
            ELSE symbolsWithPrices[firstOf(s)].previousClosePrice]

\* symbolsWithPrices.forEach(s => priceReferenceMap.set(s.symbol,
\* s.previousClosePrice)): in order, so the last entry of a symbol wins.
StorePrices(map, symbolsWithPrices) ==
    LET named == {symbolsWithPrices[i].symbol : i \in DOMAIN symbolsWithPrices}
        lastOf(s) == CHOOSE i \in DOMAIN symbolsWithPrices :
                        /\ symbolsWithPrices[i].symbol = s
                        /\ \A j \in DOMAIN symbolsWithPrices :
                              symbolsWithPrices[j].symbol = s => j <= i
    IN  [s \in DOMAIN map \cup named |->
            IF s \in named
            THEN symbolsWithPrices[lastOf(s)].previousClosePrice
            ELSE map[s]]

\* A loop that sends a subscribe message for every entry of the list.
SubscribeSendsAll(symbols, tracked) ==
    [i \in DOMAIN symbols |-> symbols[i].symbol]

\* The subscribe messages of lines 172-178, in order: one for each entry
\* whose symbol is not tracked when its turn comes.
RECURSIVE SubscribeSends(_, _)
SubscribeSends(symbols, tracked) ==
    IF symbols = <<>> THEN <<>>
    ELSE IF Head(symbols).symbol \in tracked
    THEN SubscribeSends(Tail(symbols), tracked)
    ELSE <<Head(symbols).symbol>>
            \o SubscribeSends(Tail(symbols), tracked \cup {Head(symbols).symbol})

\* subscribe(symbols): old format (string[]) or new format ({symbol, previousClosePrice}[]).
Subscribe ==
    /\ mounted
    /\ \E withPrices \in BOOLEAN :
       \E symbols \in SubscribeLists :
          LET symbolsToSubscribe == {symbols[i].symbol : i \in DOMAIN symbols}
              \* nothing is sent unless the socket is open (lines 166-170)
              sent == IF wsState = "OPEN"
                      THEN SubscribeSends(symbols, subscribedSymbols)
                      ELSE <<>>
          IN  /\ priceReferenceMap' =
                    IF withPrices
                    THEN StorePrices(priceReferenceMap, symbols)
                    ELSE priceReferenceMap
              /\ subscribedSymbols' = subscribedSymbols \cup symbolsToSubscribe
              /\ serverSubs' = serverSubs \cup Range(sent)
              /\ stale' = stale \ Range(sent)
              /\ lastCall' = [op |-> "subscribe", withPrices |-> withPrices,
                              named |-> symbolsToSubscribe, sent |-> sent,
                              given |-> IF withPrices
                                        THEN [s \in symbolsToSubscribe |->
                                                {symbols[i].previousClosePrice :
                                                    i \in {j \in DOMAIN symbols :
                                                              symbols[j].symbol = s}}]
                                        ELSE <<>>]
    /\ UNCHANGED <<apiKey, mounted, timer, reconnectTimeout, wsState, isConnected, prices>>

\* unsubscribe(symbols)
Unsubscribe ==
    /\ mounted
    /\ \E symbols \in SeqsUpTo(Symbols, MaxSubs) :
          LET gone == IF wsState = "OPEN"
                      THEN Range(symbols) \cap subscribedSymbols ELSE {}
          IN  /\ subscribedSymbols' = subscribedSymbols \ gone
              /\ serverSubs' = serverSubs \ gone
              /\ stale' = stale \cup (gone \cap serverSubs)
              /\ lastCall' = [op |-> "unsubscribe", named |-> Range(symbols)]
    /\ UNCHANGED <<apiKey, mounted, timer, reconnectTimeout, wsState, isConnected,
                   priceReferenceMap, prices>>

\* The effect's cleanup.  send() on a socket that is still CONNECTING throws,
\* so with symbols tracked the close() after it is not reached.
Cleanup ==
    /\ mounted
    /\ mounted' = FALSE
    /\ timer' = FALSE
    /\ reconnectTimeout' = FALSE
    /\ lastCall' = NoCall
    /\ IF wsState = "NONE" \/ (wsState = "CONNECTING" /\ subscribedSymbols # {})
       THEN UNCHANGED <<wsState, serverSubs, stale>>
       ELSE /\ wsState' = "CLOSING"
            /\ serverSubs' = serverSubs \ subscribedSymbols
            /\ stale' = stale \cup (serverSubs \cap subscribedSymbols)
    /\ UNCHANGED <<apiKey, isConnected, subscribedSymbols, priceReferenceMap, prices>>

LiveInit ==
    /\ apiKey \in BOOLEAN
    /\ mounted = TRUE
    /\ timer = TRUE
    /\ reconnectTimeout = FALSE
    /\ wsState = "NONE"
    /\ isConnected = FALSE
    /\ subscribedSymbols = {}
    /\ serverSubs = {}
    /\ stale = {}
    /\ priceReferenceMap = <<>>
    /\ prices = <<>>
    /\ lastCall = NoCall

LiveNext ==
    \/ InitialTimer /\ LiveOnly
    \/ ReconnectTimer /\ LiveOnly
    \/ OnOpen /\ LiveOnly
    \/ OnMessage /\ LiveOnly
    \/ OnClose /\ LiveOnly
    \/ Subscribe /\ LiveOnly
    \/ Unsubscribe /\ LiveOnly
    \/ Cleanup /\ LiveOnly

----------------------------------------------------------------------------
(* The store: table stock_ohlcv behind the supabase client.                 *)

MaxTasks == 2     \* asynchronous calls in flight at once
MaxBatch == 2     \* longest symbol list handed to a batch call

TaskIds == 1..MaxTasks

Null == [null |-> TRUE]
NoValue == <<>>     \* undefined / SQL NULL of a number

Columns == {"symbol", "date", "open_price", "high_price", "low_price",
            "close_price", "volume", "previous_close", "percent_change"}
NotNullColumns == {"symbol", "date", "open_price", "high_price", "low_price",
                   "close_price"}

\* DECIMAL(8, 4): round half away from zero to four decimals.
RoundDecimal4(r) ==
    LET n == Abs(r[1]) * 10000
        q == (2 * n + r[2]) \div (2 * r[2])
    IN  Rat(IF r[1] < 0 THEN 0 - q ELSE q, 10000)

ColumnValue(c, v) == IF c = "percent_change" THEN RoundDecimal4(v) ELSE v

Field(r, f) == IF f \in DOMAIN r THEN r[f] ELSE NoValue

\* The row object the client sends: keys whose value is undefined are dropped.
RowOf(data) == [c \in Columns \cap DOMAIN data |-> ColumnValue(c, data[c])]

SameKey(a, b) == a.symbol = b.symbol /\ a.date = b.date

\* INSERT ... ON CONFLICT (symbol, date) DO UPDATE of one row.
\* NOT NULL is checked on the proposed row; UNIQUE(date) on an insert.
Upsert(table, row) ==
    IF ~(NotNullColumns \subseteq DOMAIN row)
    THEN [error |-> TRUE, table |-> table]
    ELSE IF \E i \in DOMAIN table : SameKey(table[i], row)
    THEN [error |-> FALSE,
          table |-> [i \in DOMAIN table |->
                        IF SameKey(table[i], row)
                        THEN [c \in DOMAIN table[i] \cup DOMAIN row |->
                                IF c \in DOMAIN row THEN row[c] ELSE table[i][c]]
                        ELSE table[i]]]
    ELSE IF \E i \in DOMAIN table : table[i].date = row.date
    THEN [error |-> TRUE, table |-> table]
    ELSE [error |-> FALSE, table |-> Append(table, row)]

\* One statement for the whole array: any failing row fails all of it.
RECURSIVE UpsertRows(_, _)
UpsertRows(table, rows) ==
    IF rows = <<>> THEN [error |-> FALSE, table |-> table]
    ELSE LET first == Upsert(table, Head(rows))
             rest == UpsertRows(first.table, Tail(rows))
         IN  IF first.error \/ rest.error
             THEN [error |-> TRUE, table |-> table]
             ELSE rest

\* .select('*').eq('symbol', symbol).eq('date', date).single()
RowsFor(table, symbol, date) ==
    SelectSeq(table, LAMBDA r : r.symbol = symbol /\ r.date = date)

SelectSingle(table, symbol, date) ==
    LET found == RowsFor(table, symbol, date)
    IN  IF Len(found) = 1
        THEN [data |-> found[1], error |-> FALSE]
        ELSE [data |-> Null, error |-> TRUE]

\* saveBatchOHLCVData(ohlcvDataArray): TRUE when the upsert reported no error.
saveBatchOHLCVData(table, ohlcvDataArray, down) ==
    IF ohlcvDataArray = <<>> THEN [ok |-> TRUE, table |-> table]
    ELSE IF down THEN [ok |-> FALSE, table |-> table]
    ELSE LET r == UpsertRows(table, [i \in DOMAIN ohlcvDataArray |->
                                        RowOf(ohlcvDataArray[i])])
         IN  [ok |-> ~r.error, table |-> r.table]

\* saveOHLCVData(ohlcvData)
saveOHLCVData(table, ohlcvData, down) ==
    IF down THEN [ok |-> FALSE, table |-> table]
    ELSE LET r == Upsert(table, RowOf(ohlcvData))
         IN  [ok |-> ~r.error, table |-> r.table]

----------------------------------------------------------------------------
(* The quote provider.                                                      *)

RawQuote(c, h, l, o, pc, v, dp) ==
    [c |-> c, h |-> h, l |-> l, o |-> o, pc |-> pc, v |-> v, dp |-> dp]

\* What GET /quote can answer.
RawQuotes ==
    { RawQuote(0, 0, 0, 0, 0, 0, NoValue),
      RawQuote(52, 52, 50, 50, 50, 10, RatInt(4)),
      RawQuote(48, 50, 48, 50, 50, 20, NoValue),
      RawQuote(50, 51, 0, 0, 50, 10, Zero) }

ProviderOutcomes ==
    {[ok |-> FALSE]} \cup {[ok |-> TRUE, data |-> d] : d \in RawQuotes}

\* A provider wrapper without the zero-sentinel test of lines 48-51.
getFinnhubQuoteNoSentinel(outcome) ==
    IF ~outcome.ok THEN Null
    ELSE LET data == outcome.data
         IN  [percentChange |->
                  IF data.dp = NoValue
                  THEN IF data.pc # 0
                       THEN Rat((data.c - data.pc) * 100, data.pc)
                       ELSE Zero
                  ELSE data.dp,
              price |-> data.c, high |-> data.h, low |-> data.l,
              open |-> data.o, previousClosePrice |-> data.pc,
              volume |-> data.v]

\* getFinnhubQuote(symbol) on the provider's outcome: a failed outcome stands
\* for a missing key, a non-2xx answer or a thrown fetch.
getFinnhubQuote(outcome) ==
    IF ~outcome.ok THEN Null
    ELSE LET data == outcome.data
         IN  IF data.c = 0 /\ data.pc = 0 THEN Null
             ELSE [percentChange |->
                       IF data.dp = NoValue
                       THEN IF data.pc # 0
                            THEN Rat((data.c - data.pc) * 100, data.pc)
                            ELSE Zero
                       ELSE data.dp,
                   price |-> data.c, high |-> data.h, low |-> data.l,
                   open |-> data.o, previousClosePrice |-> data.pc,
                   volume |-> data.v]

Quotes == {getFinnhubQuote(o) : o \in ProviderOutcomes} \ {Null}

----------------------------------------------------------------------------
(* getStockDataWithOHLCV(symbol), one step per await.                       *)

Idle == [op |-> "idle"]

NoOp == [op |-> "none"]

\* JavaScript's a || b on a percentage.
OrElsePct(present, a, b) == IF present /\ a # Zero THEN a ELSE b

\* The value returned on a store hit (lines 51-64).
HitResult(symbol, day, dbData, quote) ==
    [symbol |-> symbol,
     price |-> OrElse(quote # Null, IF quote # Null THEN quote.price ELSE 0,
                      dbData.close_price),
     previousClosePrice |-> Field(dbData, "previous_close"),
     percentChange |-> OrElsePct(quote # Null,
                                 IF quote # Null THEN quote.percentChange ELSE Zero,
                                 Field(dbData, "percent_change")),
     open |-> dbData.open_price, high |-> dbData.high_price,
     low |-> dbData.low_price, close |-> dbData.close_price,
     volume |-> Field(dbData, "volume"),
     date |-> day, source |-> "database"]

\* The object handed to saveBatchOHLCVData on a store miss (lines 79-89).
MissRecord(symbol, day, quote) ==
    [symbol |-> symbol, date |-> day, open |-> quote.open, high |-> quote.high,
     low |-> quote.low, close |-> quote.price, volume |-> quote.volume,
     previousClose |-> quote.previousClosePrice,
     percentChange |-> quote.percentChange]

\* The value returned on a store miss (lines 92-105).
MissResult(symbol, day, quote) ==
    [symbol |-> symbol, price |-> quote.price,
     previousClosePrice |-> quote.previousClosePrice,
     percentChange |-> quote.percentChange,
     open |-> quote.open, high |-> quote.high, low |-> quote.low,
     close |-> quote.price, volume |-> quote.volume,
     date |-> day, source |-> "api"]

Rejected == [rejected |-> TRUE]

\* catch (error) { ...; return null; }
ResolveCatch == Null

Summary(value) ==
    IF value = Null \/ value = Rejected THEN value
    ELSE [date |-> value.date, source |-> value.source, open |-> value.open]

\* The call in slot t returns value: to its caller, or into the batch.
Return(t, value, info) ==
    LET task == tasks[t]
    IN  /\ tasks' = [tasks EXCEPT ![t] = Idle]
        /\ lastOp' = [op |-> "resolve", symbol |-> task.symbol, day |-> task.day,
                      prev |-> task.prev, result |-> value] @@ info
        /\ resolved' = [resolved EXCEPT ![task.symbol] = Summary(value)]
        /\ batch' = IF task.slot = 0 THEN batch
                    ELSE [batch EXCEPT !.results[task.slot] = value]

StartResolve(t) ==
    /\ tasks[t] = Idle
    /\ \E symbol \in Symbols :
          tasks' = [tasks EXCEPT ![t] =
                       [op |-> "resolve", pc |-> "select", symbol |-> symbol,
                        day |-> today, prev |-> resolved[symbol], slot |-> 0]]
    /\ lastOp' = NoOp
    /\ UNCHANGED <<stock_ohlcv, today, batch, resolved>>

\* await supabase...single(): a row, no row, a reported error, or a throw.
ResolveSelect(t) ==
    /\ tasks[t].op = "resolve" /\ tasks[t].pc = "select"
    /\ \E io \in {"ok", "error", "throw"} :
          LET r == SelectSingle(stock_ohlcv, tasks[t].symbol, tasks[t].day)
          IN  IF io = "throw"
              THEN Return(t, ResolveCatch,
                          [hit |-> FALSE, outcome |-> Null, quote |-> Null,
                           dbData |-> Null, dbError |-> TRUE, upserts |-> 0])
              ELSE /\ tasks' = [tasks EXCEPT ![t] =
                        IF io = "ok" /\ ~r.error
                        THEN [@ EXCEPT !.pc = "quote"] @@
                             [dbData |-> r.data, dbError |-> FALSE]
                        ELSE [@ EXCEPT !.pc = "quote"] @@
                             [dbData |-> Null, dbError |-> io = "error"]]
                   /\ lastOp' = NoOp
                   /\ UNCHANGED <<batch, resolved>>
    /\ UNCHANGED <<stock_ohlcv, today>>

\* await getFinnhubQuote(symbol), on a hit (line 49) or on a miss (line 69).
ResolveQuote(t) ==
    /\ tasks[t].op = "resolve" /\ tasks[t].pc = "quote"
    /\ \E outcome \in ProviderOutcomes :
          LET task == tasks[t]
              quote == getFinnhubQuote(outcome)
              info == [hit |-> task.dbData # Null, outcome |-> outcome,
                       quote |-> quote, dbData |-> task.dbData,
                       dbError |-> task.dbError, upserts |-> 0]
          IN  IF task.dbData # Null
              THEN Return(t, HitResult(task.symbol, task.day, task.dbData, quote), info)
              ELSE IF quote = Null
              THEN Return(t, Null, info)
              ELSE /\ tasks' = [tasks EXCEPT ![t] =
                                   [@ EXCEPT !.pc = "save"] @@
                                   [quote |-> quote, outcome |-> outcome]]
                   /\ lastOp' = NoOp
                   /\ UNCHANGED <<batch, resolved>>
    /\ UNCHANGED <<stock_ohlcv, today>>

\* await saveBatchOHLCVData([...]) and the return after it.
ResolveSave(t) ==
    /\ tasks[t].op = "resolve" /\ tasks[t].pc = "save"
    /\ \E down \in BOOLEAN :
          LET task == tasks[t]
              saved == saveBatchOHLCVData(stock_ohlcv,
                           <<MissRecord(task.symbol, task.day, task.quote)>>, down)
          IN  /\ stock_ohlcv' = saved.table
              /\ Return(t, MissResult(task.symbol, task.day, task.quote),
                        [hit |-> FALSE, outcome |-> task.outcome,
                         quote |-> task.quote, dbData |-> Null,
                         dbError |-> task.dbError, upserts |-> 1,
                         down |-> down])
    /\ UNCHANGED today

----------------------------------------------------------------------------
(* getStockDataForMultipleSymbols(symbols): Promise.all over the symbols,   *)
(* then the filter.                                                         *)

NoBatch == [symbols |-> <<>>, results |-> <<>>, running |-> FALSE]

Pending == [pending |-> TRUE]

\* The results with nothing filtered out.
KeepUnresolved(results) == results

\* results.filter(data => data !== null)
FilterResolved(results) == SelectSeq(results, LAMBDA data : data # Null)

StartResolveMany ==
    /\ ~batch.running
    /\ \E symbols \in SeqsUpTo(Symbols, MaxBatch) :
          /\ Len(symbols) <= MaxTasks
          /\ \A i \in DOMAIN symbols : tasks[i] = Idle
          /\ tasks' = [t \in TaskIds |->
                          IF t \in DOMAIN symbols
                          THEN [op |-> "resolve", pc |-> "select",
                                symbol |-> symbols[t], day |-> today,
                                prev |-> resolved[symbols[t]], slot |-> t]
                          ELSE tasks[t]]
          /\ batch' = [symbols |-> symbols,
                       results |-> [i \in DOMAIN symbols |-> Pending],
                       running |-> TRUE]
    /\ lastOp' = NoOp
    /\ UNCHANGED <<stock_ohlcv, today, resolved>>

\* Promise.all settles: rejected if a call rejected, else the values in input order.
FinishResolveMany ==
    /\ batch.running
    /\ \A i \in DOMAIN batch.results : batch.results[i] # Pending
    /\ LET rejected == \E i \in DOMAIN batch.results : batch.results[i] = Rejected
       IN  lastOp' = [op |-> "resolveMany", symbols |-> batch.symbols,
                      children |-> batch.results, rejected |-> rejected,
                      result |-> IF rejected THEN <<>>
                                 ELSE FilterResolved(batch.results)]
    /\ batch' = NoBatch
    /\ UNCHANGED <<stock_ohlcv, today, tasks, resolved>>

----------------------------------------------------------------------------
(* updateDailyOHLCVFromQuote(symbol, quoteData), one step per await.        *)

Max(a, b) == IF a >= b THEN a ELSE b
Min(a, b) == IF a <= b THEN a ELSE b

\* The ohlcvData object built from the row read earlier (lines 185-197).
DailyOHLCV(symbol, day, existingData, quoteData) ==
    LET has == existingData # Null
        old(c) == IF has THEN existingData[c] ELSE 0
    IN  [symbol |-> symbol, date |-> day,
         open_price |-> OrElse(has, old("open_price"), quoteData.open),
         high_price |-> Max(OrElse(has, old("high_price"), quoteData.high),
                            quoteData.high),
         low_price |-> Min(OrElse(has, old("low_price"), quoteData.low),
                           quoteData.low),
         close_price |-> quoteData.price,
         volume |-> quoteData.volume,
         previous_close |-> quoteData.previousClosePrice,
         percent_change |->
             IF quoteData.previousClosePrice > 0
             THEN Rat((quoteData.price - quoteData.previousClosePrice) * 100,
                      quoteData.previousClosePrice)
             ELSE Zero]

StartUpdate(t) ==
    /\ tasks[t] = Idle
    /\ \E symbol \in Symbols, quoteData \in Quotes :
          tasks' = [tasks EXCEPT ![t] =
                       [op |-> "update", pc |-> "select", symbol |-> symbol,
                        day |-> today, quoteData |-> quoteData]]
    /\ lastOp' = NoOp
    /\ UNCHANGED <<stock_ohlcv, today, batch, resolved>>

\* The read of today's row: any error other than "no rows" returns false.
UpdateSelect(t) ==
    /\ tasks[t].op = "update" /\ tasks[t].pc = "select"
    /\ \E io \in {"ok", "error", "throw"} :
          LET task == tasks[t]
              r == SelectSingle(stock_ohlcv, task.symbol, task.day)
          IN  IF io = "ok"
              THEN /\ tasks' = [tasks EXCEPT ![t] =
                                   [@ EXCEPT !.pc = "upsert"] @@
                                   [existingData |-> r.data]]
                   /\ lastOp' = NoOp
              ELSE /\ tasks' = [tasks EXCEPT ![t] = Idle]
                   /\ lastOp' = [op |-> "update", symbol |-> task.symbol,
                                 day |-> task.day, quoteData |-> task.quoteData,
                                 upserts |-> 0, ok |-> FALSE]
    /\ UNCHANGED <<stock_ohlcv, today, batch, resolved>>

\* return await saveOHLCVData(ohlcvData)
UpdateUpsert(t) ==
    /\ tasks[t].op = "update" /\ tasks[t].pc = "upsert"
    /\ \E down \in BOOLEAN :
          LET task == tasks[t]
              ohlcvData == DailyOHLCV(task.symbol, task.day, task.existingData,
                                      task.quoteData)
              saved == saveOHLCVData(stock_ohlcv, ohlcvData, down)
          IN  /\ stock_ohlcv' = saved.table
              /\ lastOp' = [op |-> "update", symbol |-> task.symbol,
                            day |-> task.day, quoteData |-> task.quoteData,
                            upserts |-> 1, ok |-> saved.ok, down |-> down,
                            existingData |-> task.existingData]
    /\ tasks' = [tasks EXCEPT ![t] = Idle]
    /\ UNCHANGED <<today, batch, resolved>>

----------------------------------------------------------------------------
(* GET /api/data-collection?action=ohlcv: the loop over the symbols.        *)

OhlcvAdvance(task) ==
    IF task.i < Len(task.symbols)
    THEN [op |-> "ohlcv", pc |-> "quote", symbols |-> task.symbols, i |-> task.i + 1]
    ELSE Idle

StartOhlcv(t) ==
    /\ tasks[t] = Idle
    /\ \E symbols \in SeqsUpTo(Symbols, MaxBatch) \ {<<>>} :
          tasks' = [tasks EXCEPT ![t] =
                       [op |-> "ohlcv", pc |-> "quote", symbols |-> symbols, i |-> 1]]
    /\ lastOp' = NoOp
    /\ UNCHANGED <<stock_ohlcv, today, batch, resolved>>

\* const quote = await getFinnhubQuote(symbol); today is read after it.
OhlcvQuote(t) ==
    /\ tasks[t].op = "ohlcv" /\ tasks[t].pc = "quote"
    /\ \E outcome \in ProviderOutcomes :
          LET task == tasks[t]
              quote == getFinnhubQuote(outcome)
          IN  tasks' = [tasks EXCEPT ![t] =
                           IF quote = Null THEN OhlcvAdvance(task)
                           ELSE [task EXCEPT !.pc = "save"] @@
                                [quote |-> quote, day |-> today]]
    /\ lastOp' = NoOp
    /\ UNCHANGED <<stock_ohlcv, today, batch, resolved>>

\* await saveBatchOHLCVData([...]); results.results.ohlcv[symbol] = 'Updated'
OhlcvSave(t) ==
    /\ tasks[t].op = "ohlcv" /\ tasks[t].pc = "save"
    /\ \E down \in BOOLEAN :
          LET task == tasks[t]
              symbol == task.symbols[task.i]
              saved == saveBatchOHLCVData(stock_ohlcv,
                           <<MissRecord(symbol, task.day, task.quote)>>, down)
          IN  /\ stock_ohlcv' = saved.table
              /\ lastOp' = [op |-> "ohlcv", symbol |-> symbol, day |-> task.day,
                            quote |-> task.quote, upserts |-> 1,
                            ok |-> saved.ok, down |-> down]
              /\ tasks' = [tasks EXCEPT ![t] = OhlcvAdvance(task)]
    /\ UNCHANGED <<today, batch, resolved>>

QuoteInit ==
    /\ stock_ohlcv = <<>>
    /\ today = 1
    /\ tasks = [t \in TaskIds |-> Idle]
    /\ batch = NoBatch
    /\ resolved = [s \in Symbols |-> Null]
    /\ lastOp = NoOp

\* Calls made one at a time.
QuoteNext ==
    \/ StartResolve(1) /\ QuoteOnly
    \/ ResolveSelect(1) /\ QuoteOnly
    \/ ResolveQuote(1) /\ QuoteOnly
    \/ ResolveSave(1) /\ QuoteOnly
    \/ StartUpdate(1) /\ QuoteOnly
    \/ UpdateSelect(1) /\ QuoteOnly
    \/ UpdateUpsert(1) /\ QuoteOnly
    \/ StartOhlcv(1) /\ QuoteOnly
    \/ OhlcvQuote(1) /\ QuoteOnly
    \/ OhlcvSave(1) /\ QuoteOnly

\* A table a sequence of calls leaves behind: empty, or one row written by
\* updateDailyOHLCVFromQuote.
StoredTables ==
    {<<>>} \cup {<<RowOf(DailyOHLCV(s, 1, Null, q))>> : s \in Symbols, q \in Quotes}

\* A batch call over a table left by earlier calls; its calls interleave.
BatchInit ==
    /\ stock_ohlcv \in StoredTables
    /\ today = 1
    /\ tasks = [t \in TaskIds |-> Idle]
    /\ batch = NoBatch
    /\ resolved = [s \in Symbols |-> Null]
    /\ lastOp = NoOp

BatchNext ==
    \/ StartResolveMany /\ QuoteOnly
    \/ FinishResolveMany /\ QuoteOnly
    \/ \E t \in TaskIds :
          \/ ResolveSelect(t) /\ QuoteOnly
          \/ ResolveQuote(t) /\ QuoteOnly
          \/ ResolveSave(t) /\ QuoteOnly

\* Two updateDailyOHLCVFromQuote calls for one key, started together over a
\* table left by earlier calls.
RaceQuotes == {q \in Quotes : q.low > 0 /\ q.open > 0}

RaceInit ==
    /\ stock_ohlcv \in {<<>>} \cup
            {<<RowOf(DailyOHLCV("AAPL", 1, Null, q))>> : q \in RaceQuotes}
    /\ today = 1
    /\ \E qa \in RaceQuotes, qb \in RaceQuotes :
          tasks = [t \in TaskIds |->
                      IF t <= 2
                      THEN [op |-> "update", pc |-> "select", symbol |-> "AAPL",
                            day |-> 1, quoteData |-> IF t = 1 THEN qa ELSE qb]
                      ELSE Idle]
    /\ batch = NoBatch
    /\ resolved = [s \in Symbols |-> Null]
    /\ lastOp = NoOp

RaceNext ==
    \E t \in TaskIds :
       \/ UpdateSelect(t) /\ QuoteOnly
       \/ UpdateUpsert(t) /\ QuoteOnly

----------------------------------------------------------------------------
(* The retention decision at the end of calculateTrendingDimensions.        *)

SixHourThreshold == 50
TwentyFourHourThreshold == 40

\* Average scores, as exact fractions.
Averages == {RatInt(0), RatInt(40), Rat(81, 2), RatInt(50), Rat(101, 2), RatInt(60)}

DimensionInputs ==
    [isCurrentlyTrending : BOOLEAN, sixHourAvgScore : Averages,
     twentyFourHourAvgScore : Averages]

\* A chain whose thresholds are met by equality.
KeepDecisionInclusive(d) ==
    IF d.isCurrentlyTrending
    THEN [keepSymbol |-> TRUE, keepReason |-> "Currently in top 30"]
    ELSE IF ~RatLess(d.sixHourAvgScore, RatInt(SixHourThreshold))
    THEN [keepSymbol |-> TRUE, keepReason |-> "6h avg score > 50"]
    ELSE IF ~RatLess(d.twentyFourHourAvgScore, RatInt(TwentyFourHourThreshold))
    THEN [keepSymbol |-> TRUE, keepReason |-> "24h avg score > 40"]
    ELSE [keepSymbol |-> FALSE, keepReason |-> "Below threshold"]

\* The if / else-if chain of lines 160-174.
KeepDecision(d) ==
    IF d.isCurrentlyTrending
    THEN [keepSymbol |-> TRUE, keepReason |-> "Currently in top 30"]
    ELSE IF RatLess(RatInt(SixHourThreshold), d.sixHourAvgScore)
    THEN [keepSymbol |-> TRUE, keepReason |-> "6h avg score > 50"]
    ELSE IF RatLess(RatInt(TwentyFourHourThreshold), d.twentyFourHourAvgScore)
    THEN [keepSymbol |-> TRUE, keepReason |-> "24h avg score > 40"]
    ELSE [keepSymbol |-> FALSE, keepReason |-> "Below threshold"]

Decide ==
    /\ decision = Null
    /\ decision' = KeepDecision(dims)
    /\ UNCHANGED dims

KeepIdle ==
    /\ dims = Null
    /\ decision = Null

KeepInit ==
    /\ dims \in DimensionInputs
    /\ decision = Null

KeepNext == Decide /\ KeepOnly

----------------------------------------------------------------------------
(* The trending collection: runTrendingCollection, saveTrendingSnapshots,   *)
(* calculateTrendingDimensions, getStableSymbols and the table              *)
(* stock_trending_snapshots.                                                *)

MaxFeed == 2            \* most symbols the trending feed returns
MaxSnapshots == 3       \* most rows the table holds before runs stop
TicksPerMinute == 2     \* instants told apart within one minute

SixHours == 6 * 60 * TicksPerMinute
TwentyFourHours == 24 * 60 * TicksPerMinute

\* The instants new Date() takes: the start, later in the same minute, the
\* next minute, just over six hours, exactly and just over twenty-four hours.
Instants == {0, 1, TicksPerMinute, SixHours + 1, TwentyFourHours,
             TwentyFourHours + 1}

Scores == {40, 60}

RECURSIVE SumSeq(_)
SumSeq(q) == IF q = <<>> THEN 0 ELSE Head(q) + SumSeq(Tail(q))

RECURSIVE MaxSeq(_)
MaxSeq(q) == IF Len(q) = 1 THEN q[1]
             ELSE LET m == MaxSeq(Tail(q)) IN IF Head(q) > m THEN Head(q) ELSE m

Reverse(q) == [i \in 1..Len(q) |-> q[Len(q) + 1 - i]]

Distinct(q) == \A i \in DOMAIN q : \A j \in DOMAIN q : q[i] = q[j] => i = j

\* data.symbols of the trending answer: symbol and trending_score; the rank
\* is the position (rank: index + 1).
Feeds ==
    {f \in SeqsUpTo([symbol : Symbols, trending_score : Scores], MaxFeed) :
        Distinct([i \in DOMAIN f |-> f[i].symbol])}

FeedOutcomes == {[ok |-> FALSE]} \cup {[ok |-> TRUE, symbols |-> f] : f \in Feeds}

\* snapshotRecords of runTrendingCollection (lines 23-31).
SnapshotRecords(symbols) ==
    [i \in DOMAIN symbols |->
        [symbol |-> symbols[i].symbol,
         rank |-> OrElse(TRUE, i, 0),
         trendingScore |-> OrElse(TRUE, symbols[i].trending_score, 0)]]

\* date_trunc('minute', created_at)
MinuteOf(created_at) == created_at \div TicksPerMinute

SameMinute(a, b) ==
    a.symbol = b.symbol /\ MinuteOf(a.created_at) = MinuteOf(b.created_at)

\* One INSERT statement without the unique index of lines 259-261.
InsertWithoutUniqueIndex(table, records, down) ==
    IF down THEN [error |-> TRUE, table |-> table]
    ELSE [error |-> FALSE, table |-> table \o records]

\* .insert(records): one INSERT statement, rejected as a whole when a row
\* collides, on idx_trending_unique_symbol_minute, with a stored row or with
\* another row of the statement.
Insert(table, records, down) ==
    IF down THEN [error |-> TRUE, table |-> table]
    ELSE IF \/ \E i \in DOMAIN records : \E j \in DOMAIN table :
                  SameMinute(records[i], table[j])
            \/ \E i \in DOMAIN records : \E j \in DOMAIN records :
                  i # j /\ SameMinute(records[i], records[j])
    THEN [error |-> TRUE, table |-> table]
    ELSE [error |-> FALSE, table |-> table \o records]

\* A save that reports success whatever the insert answered.
saveTrendingSnapshotsUnchecked(table, snapshots, at, down) ==
    IF snapshots = <<>> THEN [ok |-> TRUE, table |-> table]
    ELSE LET records == [i \in DOMAIN snapshots |->
                            [symbol |-> snapshots[i].symbol,
                             rank |-> snapshots[i].rank,
                             trending_score |-> snapshots[i].trendingScore,
                             created_at |-> at]]
             r == Insert(table, records, down)
         IN  [ok |-> TRUE, table |-> r.table]

\* saveTrendingSnapshots(snapshots) at instant at: TRUE when the insert
\* reported no error.
saveTrendingSnapshots(table, snapshots, at, down) ==
    IF snapshots = <<>> THEN [ok |-> TRUE, table |-> table]
    ELSE LET records == [i \in DOMAIN snapshots |->
                            [symbol |-> snapshots[i].symbol,
                             rank |-> snapshots[i].rank,
                             trending_score |-> snapshots[i].trendingScore,
                             created_at |-> at]]
             r == Insert(table, records, down)
         IN  [ok |-> ~r.error, table |-> r.table]

\* .eq('symbol', symbol).gte('created_at', since).order('created_at',
\* { ascending: false }); rows are stored in the order they were created.
SnapshotsSince(table, symbol, since) ==
    Reverse(SelectSeq(table,
                LAMBDA r : r.symbol = symbol /\ r.created_at >= since))

\* A realTime object whose flag is not set.
RealTimeNotTrending(latest) ==
    [rank |-> latest.rank, score |-> latest.trending_score,
     isCurrentlyTrending |-> FALSE, lastSeen |-> latest.created_at]

\* The realTime object built from the most recent snapshot (lines 119-126).
RealTime(latest) ==
    [rank |-> latest.rank, score |-> latest.trending_score,
     isCurrentlyTrending |-> TRUE, lastSeen |-> latest.created_at]

RECURSIVE RatSum(_)
RatSum(q) == IF q = <<>> THEN Zero ELSE RatAdd(Head(q), RatSum(Tail(q)))

\* A deviation with Bessel's correction (variance over N - 1).
calculateStdDevSample(values) ==
    IF Len(values) < 2 THEN Sqrt(Zero)
    ELSE LET avg == Rat(SumSeq(values), Len(values))
             squaredDiffs == [i \in DOMAIN values |->
                                 RatMul(RatSub(RatInt(values[i]), avg),
                                        RatSub(RatInt(values[i]), avg))]
             variance == RatMul(RatSum(squaredDiffs), Rat(1, Len(values) - 1))
         IN  Sqrt(variance)

\* calculateStdDev(values).
calculateStdDev(values) ==
    IF Len(values) < 2 THEN Sqrt(Zero)
    ELSE LET avg == Rat(SumSeq(values), Len(values))
             squaredDiffs == [i \in DOMAIN values |->
                                 RatMul(RatSub(RatInt(values[i]), avg),
                                        RatSub(RatInt(values[i]), avg))]
             variance == RatMul(RatSum(squaredDiffs), Rat(1, Len(values)))
         IN  Sqrt(variance)

\* A direction whose boundaries belong to 'up' and 'down'.
TrendInclusive(sixHourAvgScore, twentyFourHourAvgScore) ==
    IF ~RatLess(sixHourAvgScore, RatMul(twentyFourHourAvgScore, Rat(11, 10)))
    THEN "up"
    ELSE IF ~RatLess(RatMul(twentyFourHourAvgScore, Rat(9, 10)), sixHourAvgScore)
    THEN "down"
    ELSE "stable"

\* The trend direction, 6h against 24h (lines 151-157); the factors 1.1 and
\* 0.9 are taken as the exact fractions 11/10 and 9/10.
Trend(sixHourAvgScore, twentyFourHourAvgScore) ==
    IF RatLess(RatMul(twentyFourHourAvgScore, Rat(11, 10)), sixHourAvgScore)
    THEN "up"
    ELSE IF RatLess(sixHourAvgScore, RatMul(twentyFourHourAvgScore, Rat(9, 10)))
    THEN "down"
    ELSE "stable"

\* allSnapshots.find(s => s.trending_score === peakScore): the first row, in
\* the order of the select, with that score.
Find(allSnapshots, peakScore) ==
    LET i == CHOOSE i \in DOMAIN allSnapshots :
                 /\ allSnapshots[i].trending_score = peakScore
                 /\ \A j \in 1..(i - 1) :
                        allSnapshots[j].trending_score # peakScore
    IN  allSnapshots[i]

\* calculateTrendingDimensions(symbol) at instant at; io is how the select
\* ended.
calculateTrendingDimensions(table, symbol, at, io) ==
    LET allSnapshots == SnapshotsSince(table, symbol, at - TwentyFourHours)
    IN  IF io # "ok" \/ allSnapshots = <<>> THEN Null
        ELSE
        LET sixHourSnapshots ==
                SelectSeq(allSnapshots, LAMBDA r : r.created_at >= at - SixHours)
            latest == allSnapshots[1]
            realTime == RealTime(latest)
            sixHourScores == [i \in DOMAIN sixHourSnapshots |->
                                 sixHourSnapshots[i].trending_score]
            sixHourAvgScore ==
                IF Len(sixHourScores) > 0
                THEN Rat(SumSeq(sixHourScores), Len(sixHourScores)) ELSE Zero
            sixHourAvgRank ==
                IF Len(sixHourSnapshots) > 0
                THEN Rat(SumSeq([i \in DOMAIN sixHourSnapshots |->
                                    sixHourSnapshots[i].rank]),
                         Len(sixHourSnapshots))
                ELSE RatInt(latest.rank)
            sixHourVolatility == calculateStdDev(sixHourScores)
            allScores == [i \in DOMAIN allSnapshots |->
                             allSnapshots[i].trending_score]
            twentyFourHourAvgScore == Rat(SumSeq(allScores), Len(allScores))
            twentyFourHourAvgRank ==
                Rat(SumSeq([i \in DOMAIN allSnapshots |-> allSnapshots[i].rank]),
                    Len(allSnapshots))
            peakScore == MaxSeq(allScores)
            peakSnapshot == Find(allSnapshots, peakScore)
            possibleSnapshots == 720
            consistency ==
                LET c == Rat(Len(allSnapshots) * 100, possibleSnapshots)
                IN  IF RatLess(RatInt(100), c) THEN RatInt(100) ELSE c
            trend == Trend(sixHourAvgScore, twentyFourHourAvgScore)
            keep == KeepDecision(
                        [isCurrentlyTrending |-> realTime.isCurrentlyTrending,
                         sixHourAvgScore |-> sixHourAvgScore,
                         twentyFourHourAvgScore |-> twentyFourHourAvgScore])
        IN  [symbol |-> symbol,
             realTime |-> realTime,
             sixHour |-> [avgScore |-> sixHourAvgScore,
                          avgRank |-> sixHourAvgRank,
                          snapshotCount |-> Len(sixHourSnapshots),
                          trend |-> trend,
                          volatility |-> sixHourVolatility],
             twentyFourHour |-> [avgScore |-> twentyFourHourAvgScore,
                                 avgRank |-> twentyFourHourAvgRank,
                                 peakScore |-> peakScore,
                                 peakTime |-> peakSnapshot.created_at,
                                 snapshotCount |-> Len(allSnapshots),
                                 consistency |-> consistency],
             keepSymbol |-> keep.keepSymbol,
             keepReason |-> keep.keepReason]

\* .sort((a, b) => b.sixHour.avgScore - a.sixHour.avgScore), a stable sort.
RECURSIVE SortBySixHourAvg(_)
SortBySixHourAvg(q) ==
    IF q = <<>> THEN <<>>
    ELSE LET rest == SortBySixHourAvg(Tail(q))
             ahead == SelectSeq(rest, LAMBDA d :
                          RatLess(Head(q).sixHour.avgScore, d.sixHour.avgScore))
             behind == SelectSeq(rest, LAMBDA d :
                          ~RatLess(Head(q).sixHour.avgScore, d.sixHour.avgScore))
         IN  ahead \o <<Head(q)>> \o behind

\* A selection that falls back to the whole current list.
StableOfAll(currentTrendingSymbols, dimensions) == currentTrendingSymbols

\* The filter / sort / map of getStableSymbols (lines 213-216).
StableOf(currentTrendingSymbols, dimensions) ==
    LET kept == SortBySixHourAvg(
                    SelectSeq(dimensions, LAMBDA d : d # Null /\ d.keepSymbol))
    IN  [i \in DOMAIN kept |-> kept[i].symbol]

NoPage == [op |-> "none"]

NoStatus == [message |-> ""]

\* Times are minutes counted from the Sunday 00:00 one week before the week
\* observed, so that setDate can step back over a weekend.
Day == 24 * 60
At(day, hours, minutes) == (7 + day) * Day + hours * 60 + minutes

MarketIdle ==
    /\ etTime = At(0, 0, 0)
    /\ marketStatus = NoStatus

NoDimensions == [symbol |-> "", io |-> "none", result |-> Null]

\* One getStockDataWithOHLCV(symbol) call from start to return.
ResolveOnce(table, symbol, day, io, outcome, down) ==
    LET r == SelectSingle(table, symbol, day)
        dbData == IF io = "ok" /\ ~r.error THEN r.data ELSE Null
        quote == getFinnhubQuote(outcome)
    IN  IF io = "throw" THEN [result |-> ResolveCatch, table |-> table]
        ELSE IF dbData # Null
        THEN [result |-> HitResult(symbol, day, dbData, quote), table |-> table]
        ELSE IF quote = Null THEN [result |-> Null, table |-> table]
        ELSE [result |-> MissResult(symbol, day, quote),
              table |-> saveBatchOHLCVData(table,
                            <<MissRecord(symbol, day, quote)>>, down).table]

IdleRun == [pc |-> "idle"]

\* Time passes between runs.
Tick ==
    /\ run = IdleRun
    /\ \E t \in Instants : t > now /\ now' = t
    /\ UNCHANGED <<stock_trending_snapshots, run, stock_ohlcv, lastOp>>

\* const trending = await getTrendingStocks(): the feed, or a throw that
\* ends the run.
StartCollection ==
    /\ run = IdleRun
    /\ \E feed \in FeedOutcomes :
          IF feed.ok
          THEN /\ Len(stock_trending_snapshots) + Len(feed.symbols) <= MaxSnapshots
               /\ run' = [pc |-> "save", symbols |-> feed.symbols]
               /\ lastOp' = NoOp
          ELSE /\ run' = IdleRun
               /\ lastOp' = [op |-> "trending", rejected |-> TRUE]
    /\ UNCHANGED <<stock_trending_snapshots, now, stock_ohlcv>>

\* await saveTrendingSnapshots(snapshotRecords), its result dropped.
CollectSave ==
    /\ run.pc = "save"
    /\ \E down \in BOOLEAN :
          LET saved == saveTrendingSnapshots(stock_trending_snapshots,
                           SnapshotRecords(run.symbols), now, down)
          IN  /\ stock_trending_snapshots' = saved.table
              /\ run' = [run EXCEPT !.pc = "stable"] @@
                        [saved |-> saved.ok, before |-> stock_trending_snapshots]
    /\ lastOp' = NoOp
    /\ UNCHANGED <<now, stock_ohlcv>>

\* const stableSymbols = await getStableSymbols(currentSymbolList); no call
\* inside its try block throws, so its catch is never entered.
CollectStable ==
    /\ run.pc = "stable"
    /\ \E ios \in [DOMAIN run.symbols -> {"ok", "error"}] :
          LET currentSymbolList == [i \in DOMAIN run.symbols |-> run.symbols[i].symbol]
              dimensions == [i \in DOMAIN currentSymbolList |->
                  calculateTrendingDimensions(stock_trending_snapshots,
                      currentSymbolList[i], now, ios[i])]
          IN  run' = [run EXCEPT !.pc = "ohlcv"] @@
                     [ios |-> ios, dimensions |-> dimensions,
                      stableSymbols |-> StableOf(currentSymbolList, dimensions)]
    /\ lastOp' = NoOp
    /\ UNCHANGED <<stock_trending_snapshots, now, stock_ohlcv>>

RECURSIVE ResolveEach(_, _, _)
ResolveEach(table, symbols, choices) ==
    IF symbols = <<>> THEN [results |-> <<>>, table |-> table]
    ELSE LET c == Head(choices)
             r == ResolveOnce(table, Head(symbols), today, c.io, c.outcome, c.down)
             rest == ResolveEach(r.table, Tail(symbols), Tail(choices))
         IN  [results |-> <<[symbol |-> Head(symbols), ohlcv |-> r.result]>>
                            \o rest.results,
              table |-> rest.table]

\* The store and provider answers one collection run meets.
ResolveChoices ==
    {[io |-> "ok", outcome |-> o, down |-> FALSE] : o \in ProviderOutcomes}
        \cup {[io |-> "throw", outcome |-> [ok |-> FALSE], down |-> TRUE]}

\* Promise.all(stableSymbols.map(... getStockDataWithOHLCV(symbol))) and the
\* return of the run.
CollectOhlcv ==
    /\ run.pc = "ohlcv"
    /\ \E choices \in [DOMAIN run.stableSymbols -> ResolveChoices] :
          LET r == ResolveEach(stock_ohlcv, run.stableSymbols, choices)
          IN  /\ stock_ohlcv' = r.table
              /\ lastOp' = [op |-> "trending", rejected |-> FALSE,
                            symbols |-> run.symbols, saved |-> run.saved,
                            before |-> run.before, at |-> now,
                            ios |-> run.ios,
                            dimensions |-> run.dimensions,
                            trendingCount |-> Len(run.symbols),
                            stableSymbols |-> run.stableSymbols,
                            ohlcv |-> SelectSeq(r.results,
                                         LAMBDA x : x.ohlcv # Null)]
    /\ run' = IdleRun
    /\ UNCHANGED <<stock_trending_snapshots, now>>

TrendIdle ==
    /\ stock_trending_snapshots = <<>>
    /\ now = 0
    /\ run = IdleRun
    /\ trendingDimensions = NoDimensions
    /\ stock_snapshots = <<>>
    /\ dateNow = 0
    /\ page = NoPage
    /\ MarketIdle

TrendInit == TrendIdle

TrendNext ==
    \/ Tick /\ TrendOnly
    \/ StartCollection /\ TrendOnly
    \/ CollectSave /\ TrendOnly
    \/ CollectStable /\ TrendOnly
    \/ CollectOhlcv /\ TrendOnly

----------------------------------------------------------------------------
(* calculateTrendingDimensions on its own, over snapshot tables the         *)
(* collection can have written: rows in creation order, at most one per     *)
(* symbol and minute.                                                       *)

DimScores == {45, 55, 60}
DimRanks == {1, 2}

DimRows == [symbol : {"AAPL"}, rank : DimRanks, trending_score : DimScores,
            created_at : Instants]

DimTables ==
    {t \in SeqsUpTo(DimRows, MaxSnapshots) :
        \A i \in DOMAIN t : \A j \in DOMAIN t :
           i < j => /\ t[i].created_at < t[j].created_at
                    /\ MinuteOf(t[i].created_at) # MinuteOf(t[j].created_at)}

\* One calculateTrendingDimensions(symbol) call.
Calculate ==
    /\ \E symbol \in Symbols : \E io \in {"ok", "error"} :
          trendingDimensions' =
              [symbol |-> symbol, io |-> io,
               result |-> calculateTrendingDimensions(
                              stock_trending_snapshots, symbol, now, io)]

DimsInit ==
    /\ stock_trending_snapshots \in DimTables
    /\ now \in Instants
    /\ \A i \in DOMAIN stock_trending_snapshots :
          stock_trending_snapshots[i].created_at <= now
    /\ run = IdleRun
    /\ trendingDimensions = NoDimensions
    /\ stock_snapshots = <<>>
    /\ dateNow = 0
    /\ page = NoPage
    /\ MarketIdle

DimsNext ==
    \/ Calculate /\ DimsOnly

----------------------------------------------------------------------------
(* The trending page: getTrendingStocks enriches the feed and saves it, the *)
(* page maps it to stocks and the dashboard subscribes to them.             *)

MaxPolls == 3     \* page renders in one behaviour

\* What getFinnhubQuote meets for one symbol of the page.
PageOutcomes ==
    {[ok |-> FALSE],
     [ok |-> TRUE, data |-> RawQuote(48, 50, 48, 50, 50, 20, NoValue)]}

\* data.symbols of the page's trending answer; the scores play no part on
\* the page.
PageFeeds == {f \in Feeds : \A i \in DOMAIN f : f[i].trending_score = 40}

\* What getStockTwitsExtendedData returns: null, or the symbol's price and
\* previous close.
ExtendedResults == {Null, [extended |-> [price |-> 52, prevClose |-> 48]]}

\* parseFloat(x.toFixed(2)): x rounded to hundredths, halves away from zero.
ToFixed2(x) ==
    LET n == x[1] * 100
        d == x[2]
        q == (2 * Abs(n) + d) \div (2 * d)
    IN  Rat(IF n < 0 THEN 0 - q ELSE q, 100)

\* The rows of a symbol, newest first, at most limit of them.
NewestRows(table, symbol, limit) ==
    LET rows == Reverse(SelectSeq(table, LAMBDA r : r.symbol = symbol))
    IN  SubSeq(rows, 1, IF Len(rows) < limit THEN Len(rows) ELSE limit)

\* getPreviousRankAsync(symbol); io is how the select ended.  The rank is
\* returned in a record, null as Null.
getPreviousRankAsync(table, symbol, io) ==
    LET data == NewestRows(table, symbol, 2)
    IN  IF io # "ok" \/ Len(data) < 2 THEN Null ELSE [rank |-> data[2].rank]

\* The object one symbol of the feed is enriched to (lines 156-210): s is the
\* feed entry at position index, quote and extendedData what the two lookups
\* returned for it.
Enrich(s, index, quote, extendedData, prevRank) ==
    LET extendedPrice == IF extendedData # Null THEN extendedData.extended.price ELSE 0
        extendedPrevClose ==
            IF extendedData # Null THEN extendedData.extended.prevClose ELSE 0
        finalPrice == OrElse(quote # Null, IF quote # Null THEN quote.price ELSE 0,
                             OrElse(extendedData # Null, extendedPrice, 0))
        finalPercentChange ==
            IF quote # Null THEN ToFixed2(quote.percentChange)
            ELSE IF extendedPrice # 0 /\ extendedPrevClose # 0
            THEN Rat((extendedPrice - extendedPrevClose) * 100, extendedPrevClose)
            ELSE Zero
        rankDelta == IF prevRank # Null /\ prevRank.rank # 0
                     THEN prevRank.rank - (index + 1) ELSE 0
    IN  [symbol |-> s.symbol,
         trending_score |-> s.trending_score,
         price |-> finalPrice,
         percentChange |-> ToFixed2(finalPercentChange),
         previousClosePrice |->
             OrElse(quote # Null,
                    IF quote # Null THEN quote.previousClosePrice ELSE 0, 0),
         rank |-> index + 1,
         rankDelta |-> rankDelta]

\* saveTrendingData(data) at instant at: one insert of a row per symbol; its
\* error is logged and dropped.
saveTrendingData(table, symbols, at, down) ==
    IF down \/ symbols = <<>> THEN table
    ELSE table \o [i \in DOMAIN symbols |->
                      [symbol |-> symbols[i].symbol,
                       price |-> IF symbols[i].price # 0
                                 THEN symbols[i].price ELSE NoValue,
                       rank |-> symbols[i].rank,
                       timestamp |-> at]]

\* getTrendingStocks() on a feed that was answered: every symbol is enriched
\* against the table as it is, then the enriched list is saved.
getTrendingStocks(table, feed, outcomes, extendedResults, rankIo, at, down) ==
    LET enrichedSymbols ==
            [i \in DOMAIN feed |->
                Enrich(feed[i], i - 1, getFinnhubQuote(outcomes[i]),
                       extendedResults[i],
                       getPreviousRankAsync(table, feed[i].symbol, rankIo))]
    IN  [symbols |-> enrichedSymbols,
         table |-> saveTrendingData(table, enrichedSymbols, at, down)]

\* mapStockTwitsToStock(stStock): the Stock the page hands to the dashboard;
\* it copies no previousClosePrice.
mapStockTwitsToStock(stStock) ==
    [ticker |-> stStock.symbol, price |-> stStock.price,
     rank |-> stStock.rank, rankDelta |-> stStock.rankDelta]

\* symbolsWithPrices of the dashboard's effect:
\* s.previousClosePrice || s.price || 0.
SymbolsWithPrices(initialStocks) ==
    [i \in DOMAIN initialStocks |->
        [symbol |-> initialStocks[i].ticker,
         previousClosePrice |->
             OrElse("previousClosePrice" \in DOMAIN initialStocks[i], 0,
                    OrElse(TRUE, initialStocks[i].price, 0))]]

\* Home(): one render of the page, from the trending request to the list the
\* dashboard subscribes with.  The next render reads a later clock.
Home ==
    /\ dateNow < MaxPolls
    /\ \/ /\ page' = [op |-> "page", rejected |-> TRUE]
          /\ UNCHANGED stock_snapshots
       \/ \E feed \in PageFeeds :
          \E outcomes \in [DOMAIN feed -> PageOutcomes] :
          \E extendedResults \in [DOMAIN feed -> ExtendedResults] :
          \E rankIo \in {"ok", "error"} : \E down \in BOOLEAN :
             LET data == getTrendingStocks(stock_snapshots, feed, outcomes,
                             extendedResults, rankIo, dateNow, down)
                 trendingStocks == [i \in DOMAIN data.symbols |->
                                       mapStockTwitsToStock(data.symbols[i])]
             IN  /\ stock_snapshots' = data.table
                 /\ page' = [op |-> "page", rejected |-> FALSE,
                             at |-> dateNow,
                             quotes |-> [i \in DOMAIN feed |->
                                            getFinnhubQuote(outcomes[i])],
                             rankIo |-> rankIo,
                             symbols |-> data.symbols,
                             symbolsWithPrices |->
                                 SymbolsWithPrices(trendingStocks)]
    /\ dateNow' = dateNow + 1

PageInit ==
    /\ stock_snapshots = <<>>
    /\ dateNow = 0
    /\ page = NoPage
    /\ MarketIdle
    /\ stock_trending_snapshots = <<>>
    /\ now = 0
    /\ run = IdleRun
    /\ trendingDimensions = NoDimensions

PageNext ==
    \/ Home /\ PageOnly

----------------------------------------------------------------------------
(* Market hours.                                                            *)

\* Date accessors and setters on a wall-clock time in minutes.
GetDay(t) == (t \div Day) % 7
GetHours(t) == (t % Day) \div 60
GetMinutes(t) == t % 60
SetDate(t, days) == t + days * Day
SetHours(t, hours, minutes) == (t \div Day) * Day + hours * 60 + minutes

getNextMarketOpen(etTime_) ==
    LET day == GetDay(etTime_)
        currentMinutes == GetHours(etTime_) * 60 + GetMinutes(etTime_)
        marketOpen == 9 * 60 + 30
    IN  IF day = 5 /\ currentMinutes >= 16 * 60
        THEN SetHours(SetDate(etTime_, 3), 9, 30)
        ELSE IF day = 6 THEN SetHours(SetDate(etTime_, 2), 9, 30)
        ELSE IF day = 0 THEN SetHours(SetDate(etTime_, 1), 9, 30)
        ELSE IF currentMinutes < marketOpen THEN SetHours(etTime_, 9, 30)
        ELSE SetHours(SetDate(etTime_, 1), 9, 30)

getNextMarketClose(etTime_) == SetHours(etTime_, 16, 0)

getLastMarketClose(etTime_) ==
    LET day == GetDay(etTime_)
        last == IF day = 1 /\ GetHours(etTime_) < 9 THEN SetDate(etTime_, 0 - 3)
                ELSE IF day = 0 THEN SetDate(etTime_, 0 - 2)
                ELSE IF day = 6 THEN SetDate(etTime_, 0 - 1)
                ELSE etTime_
    IN  SetHours(last, 16, 0)

getNextOpenDay(currentDay) ==
    IF currentDay = 5 THEN "Monday 9:30 AM" ELSE "Tomorrow 9:30 AM"

\* getMarketStatus() when the clock reads etTime_; a field the code leaves
\* out is left out.
getMarketStatus(etTime_) ==
    LET day == GetDay(etTime_)
        currentMinutes == GetHours(etTime_) * 60 + GetMinutes(etTime_)
        marketOpen == 9 * 60 + 30
        marketClose == 16 * 60
    IN  IF day = 0 \/ day = 6
        THEN [isOpen |-> FALSE, message |-> "Market Closed - Weekend",
              nextOpen |-> getNextMarketOpen(etTime_)]
        ELSE IF currentMinutes >= marketOpen /\ currentMinutes < marketClose
        THEN [isOpen |-> TRUE, message |-> "Market Open",
              nextClose |-> getNextMarketClose(etTime_)]
        ELSE IF currentMinutes < marketOpen
        THEN [isOpen |-> FALSE, message |-> "Market Opens at 9:30 AM ET",
              nextOpen |-> getNextMarketOpen(etTime_),
              lastClose |-> getLastMarketClose(etTime_)]
        ELSE [isOpen |-> FALSE,
              message |-> "Market Closed - Opens " \o getNextOpenDay(day),
              nextOpen |-> getNextMarketOpen(etTime_),
              lastClose |-> getLastMarketClose(etTime_)]

\* The times of day the clock is read at: around midnight, 09:00, the open
\* and the close.
ClockMinutes == {0, 8 * 60, 9 * 60 - 1, 9 * 60, 9 * 60 + 29, 9 * 60 + 30,
                 12 * 60, 16 * 60 - 1, 16 * 60, 24 * 60 - 1}

\* One getMarketStatus() call.
GetMarketStatus ==
    /\ marketStatus' = getMarketStatus(etTime)
    /\ UNCHANGED etTime

MarketInit ==
    /\ \E day \in 0..6 : \E m \in ClockMinutes : etTime = At(day, 0, m)
    /\ marketStatus = NoStatus
    /\ stock_snapshots = <<>>
    /\ dateNow = 0
    /\ page = NoPage
    /\ stock_trending_snapshots = <<>>
    /\ now = 0
    /\ run = IdleRun
    /\ trendingDimensions = NoDimensions

MarketNext ==
    \/ GetMarketStatus /\ MarketOnly

----------------------------------------------------------------------------
(* Specifications.                                                          *)

LiveIdle ==
    /\ apiKey = TRUE /\ mounted = TRUE /\ timer = TRUE /\ reconnectTimeout = FALSE
    /\ wsState = "NONE" /\ isConnected = FALSE /\ subscribedSymbols = {}
    /\ serverSubs = {} /\ stale = {} /\ priceReferenceMap = <<>> /\ prices = <<>>
    /\ lastCall = NoCall

QuoteIdle == QuoteInit

Init == LiveInit /\ QuoteInit /\ KeepInit /\ TrendInit

InitLive == LiveInit /\ QuoteIdle /\ KeepIdle /\ TrendIdle
InitQuote == LiveIdle /\ QuoteInit /\ KeepIdle /\ TrendIdle
InitBatch == LiveIdle /\ BatchInit /\ KeepIdle /\ TrendIdle
InitRace == LiveIdle /\ RaceInit /\ KeepIdle /\ TrendIdle
InitKeep == LiveIdle /\ QuoteIdle /\ KeepInit /\ TrendIdle
InitTrend == LiveIdle /\ QuoteIdle /\ KeepIdle /\ TrendInit
InitDims == LiveIdle /\ QuoteIdle /\ KeepIdle /\ DimsInit
InitPage == LiveIdle /\ QuoteIdle /\ KeepIdle /\ PageInit
InitMarket == LiveIdle /\ QuoteIdle /\ KeepIdle /\ MarketInit

Next == LiveNext \/ QuoteNext \/ BatchNext \/ RaceNext \/ KeepNext \/ TrendNext
           \/ DimsNext \/ PageNext \/ MarketNext

\* The whole program.
Spec == Init /\ [][Next]_vars

\* The live price reconciler alone.
SpecLive == InitLive /\ [][LiveNext]_vars

\* The quote layer, calls one at a time.
SpecQuote == InitQuote /\ [][QuoteNext]_vars

\* One batch call, its per-symbol calls interleaved.
SpecBatch == InitBatch /\ [][BatchNext]_vars

\* Two concurrent updateDailyOHLCVFromQuote calls.
SpecRace == InitRace /\ [][RaceNext]_vars

\* Trending collection runs, one at a time.
SpecTrend == InitTrend /\ [][TrendNext]_vars

\* getMarketStatus at every day of the week and time of day.
SpecMarket == InitMarket /\ [][MarketNext]_vars

\* Renders of the trending page, one at a time.
SpecPage == InitPage /\ [][PageNext]_vars

\* calculateTrendingDimensions on every snapshot table.
SpecDims == InitDims /\ [][DimsNext]_vars

\* The retention decision on every input.
SpecKeep == InitKeep /\ [][KeepNext]_vars

----------------------------------------------------------------------------
(* Properties.                                                              *)

\* C1: whenever a trade for a symbol whose anchor A is positive is applied,
\* the percentChange stored with the new price P is (P - A) / A * 100 and
\* the record names A as its previousClosePrice, whatever the prior tick was.
C1_PercentAgainstAnchor ==
    [][\A s \in Symbols :
          ( /\ s \in DOMAIN prices'
            /\ (s \notin DOMAIN prices \/ prices'[s] # prices[s])
            /\ s \in DOMAIN priceReferenceMap
            /\ priceReferenceMap[s] > 0 )
          => /\ prices'[s].percentChange =
                  Rat((prices'[s].price - priceReferenceMap[s]) * 100,
                      priceReferenceMap[s])
             /\ prices'[s].previousClosePrice = priceReferenceMap[s]]_vars

\* Anchor 50, ticks 52 then 48: the second tick reports -4, with delta -4.
C1_Witness ==
    \E s \in DOMAIN prices :
       /\ s \in DOMAIN priceReferenceMap
       /\ priceReferenceMap[s] = 50
       /\ prices[s].price = 48
       /\ prices[s].change = 0 - 4
       /\ prices[s].percentChange = RatInt(0 - 4)

ProviderUnresolved(outcome) ==
    outcome # Null /\ (~outcome.ok \/ (outcome.data.c = 0 /\ outcome.data.pc = 0))

\* C2: a getStockDataWithOHLCV call that found no stored row and whose
\* provider call failed or answered the zero sentinel returns null, and the
\* step that returns leaves the table as it was.
C2_UnresolvedIsNull ==
    [][( /\ lastOp'.op = "resolve"
         /\ ~lastOp'.hit
         /\ ProviderUnresolved(lastOp'.outcome) )
       => /\ lastOp'.result = Null
          /\ stock_ohlcv' = stock_ohlcv]_vars

C2_Witness ==
    /\ lastOp.op = "resolve"
    /\ ~lastOp.hit
    /\ lastOp.outcome # Null
    /\ lastOp.outcome.ok
    /\ lastOp.outcome.data.c = 0 /\ lastOp.outcome.data.pc = 0
    /\ lastOp.result = Null
    /\ stock_ohlcv = <<>>

\* C3: on a store hit the result has source database; with a live
\* quote its price and percentChange are the quote's, whatever their values;
\* without one they are the stored close and stored percent_change.
C3_HitUsesLiveQuote ==
    (lastOp.op = "resolve" /\ lastOp.hit)
    => /\ lastOp.result # Null
       /\ lastOp.result.source = "database"
       /\ lastOp.quote # Null
          => /\ lastOp.result.price = lastOp.quote.price
             /\ lastOp.result.percentChange = lastOp.quote.percentChange
       /\ lastOp.quote = Null
          => /\ lastOp.result.price = lastOp.dbData.close_price
             /\ lastOp.result.percentChange = lastOp.dbData.percent_change

\* C4: a call that missed the store and got a valid quote, with
\* the store reachable, leaves exactly one row for (symbol, today) carrying
\* the quote's values, and returns them with source api.
C4_MissWritesBack ==
    (lastOp.op = "resolve" /\ ~lastOp.hit /\ lastOp.quote # Null
        /\ lastOp.upserts = 1 /\ ~lastOp.down)
    => /\ lastOp.result.source = "api"
       /\ lastOp.result.open = lastOp.quote.open
       /\ LET rows == RowsFor(stock_ohlcv, lastOp.symbol, lastOp.day)
          IN  /\ Len(rows) = 1
              /\ rows[1].open_price = lastOp.quote.open
              /\ rows[1].high_price = lastOp.quote.high
              /\ rows[1].low_price = lastOp.quote.low
              /\ rows[1].close_price = lastOp.quote.price
              /\ rows[1].volume = lastOp.quote.volume
              /\ rows[1].previous_close = lastOp.quote.previousClosePrice
              /\ rows[1].percent_change = RoundDecimal4(lastOp.quote.percentChange)

\* C5: a call for a symbol whose previous call, the same day,
\* returned source api, and whose own read of the store reported no error,
\* returns source database with the same open.
C5_SecondResolveFromStore ==
    (lastOp.op = "resolve" /\ lastOp.prev # Null /\ lastOp.prev.source = "api"
        /\ lastOp.prev.date = lastOp.day /\ ~lastOp.dbError)
    => /\ lastOp.result # Null
       /\ lastOp.result.source = "database"
       /\ lastOp.result.open = lastOp.prev.open

\* C6: a batch call never rejects; its result is, in input order, exactly
\* the non-null values its per-symbol calls returned, each for its own
\* symbol, and holds no null and no zero-filled record.
C6_BatchOmitsUnresolved ==
    lastOp.op = "resolveMany"
    => LET ch == lastOp.children
           idx == {i \in DOMAIN ch : ch[i] # Null}
           res == lastOp.result
       IN  /\ ~lastOp.rejected
           /\ Len(res) = Cardinality(idx)
           /\ \A i \in idx :
                 /\ res[Cardinality({j \in idx : j <= i})] = ch[i]
                 /\ ch[i].symbol = lastOp.symbols[i]
           /\ \A k \in DOMAIN res :
                 /\ res[k] # Null
                 /\ ~(res[k].price = 0 /\ res[k].previousClosePrice = 0)

\* Two symbols, the first unresolved, the second resolved: one record.
C6_Witness ==
    /\ lastOp.op = "resolveMany"
    /\ Len(lastOp.symbols) = 2
    /\ lastOp.children[1] = Null
    /\ lastOp.children[2] # Null
    /\ lastOp.result = <<lastOp.children[2]>>

\* C7: a step never lowers the stored high, raises the stored low
\* or changes the stored open of a (symbol, date) row, and a write that
\* succeeded leaves close and volume at the written values.
C7_WideningOnly ==
    [][/\ \A i \in DOMAIN stock_ohlcv : \A j \in DOMAIN stock_ohlcv' :
             SameKey(stock_ohlcv[i], stock_ohlcv'[j])
             => /\ stock_ohlcv'[j].high_price >= stock_ohlcv[i].high_price
                /\ stock_ohlcv'[j].low_price <= stock_ohlcv[i].low_price
                /\ stock_ohlcv'[j].open_price = stock_ohlcv[i].open_price
       /\ (lastOp'.op = "update" /\ lastOp'.ok)
          => \A j \in DOMAIN stock_ohlcv' :
                (stock_ohlcv'[j].symbol = lastOp'.symbol
                    /\ stock_ohlcv'[j].date = lastOp'.day)
                => /\ stock_ohlcv'[j].close_price = lastOp'.quoteData.price
                   /\ stock_ohlcv'[j].volume = lastOp'.quoteData.volume]_vars

\* C8, per upsert: the upsert of an updateDailyOHLCVFromQuote call
\* leaves the stored high at the maximum, and the stored low at the minimum,
\* of what was stored just before it and the call's own quote; with two
\* concurrent calls this is what makes the final row hold the extremes of
\* the stored row and both quotes.
C8_NoLostWidening ==
    [][(lastOp'.op = "update" /\ lastOp'.upserts = 1 /\ lastOp'.ok)
       => LET before == RowsFor(stock_ohlcv, lastOp'.symbol, lastOp'.day)
              after == RowsFor(stock_ohlcv', lastOp'.symbol, lastOp'.day)
              q == lastOp'.quoteData
          IN  /\ Len(after) = 1
              /\ after[1].high_price =
                    IF before = <<>> THEN q.high
                    ELSE Max(before[1].high_price, q.high)
              /\ after[1].low_price =
                    IF before = <<>> THEN q.low
                    ELSE Min(before[1].low_price, q.low)]_vars

\* C9: no two rows share a (symbol, date) key, and an upsert of a
\* complete row sent to a reachable store leaves exactly one row for its key,
\* whatever other symbols hold rows for that date.
C9_OneRowPerKey ==
    /\ \A i \in DOMAIN stock_ohlcv : \A j \in DOMAIN stock_ohlcv :
          SameKey(stock_ohlcv[i], stock_ohlcv[j]) => i = j
    /\ (lastOp.op = "update" /\ lastOp.upserts = 1 /\ ~lastOp.down)
       => Len(RowsFor(stock_ohlcv, lastOp.symbol, lastOp.day)) = 1

\* C10: the decision is the first rule that applies, in the order currently
\* trending, six-hour average above 50, 24-hour average above 40, drop; an
\* average of exactly 50 or 40 does not satisfy its rule.
C10_FirstMatchWins ==
    decision # Null
    => LET six == RatLess(RatInt(50), dims.sixHourAvgScore)
           day == RatLess(RatInt(40), dims.twentyFourHourAvgScore)
       IN  /\ dims.isCurrentlyTrending
              => decision = [keepSymbol |-> TRUE,
                             keepReason |-> "Currently in top 30"]
           /\ (~dims.isCurrentlyTrending /\ six)
              => decision = [keepSymbol |-> TRUE,
                             keepReason |-> "6h avg score > 50"]
           /\ (~dims.isCurrentlyTrending /\ ~six /\ day)
              => decision = [keepSymbol |-> TRUE,
                             keepReason |-> "24h avg score > 40"]
           /\ (~dims.isCurrentlyTrending /\ ~six /\ ~day)
              => decision = [keepSymbol |-> FALSE,
                             keepReason |-> "Below threshold"]

\* Not trending, six-hour average exactly 50, 24-hour average 40.5: rule 3.
C10_Witness ==
    /\ decision # Null
    /\ ~dims.isCurrentlyTrending
    /\ dims.sixHourAvgScore = RatInt(50)
    /\ dims.twentyFourHourAvgScore = Rat(81, 2)
    /\ decision.keepSymbol
    /\ decision.keepReason = "24h avg score > 40"

\* C11: a collection run that returns lists every symbol of the
\* trending feed among its stableSymbols.
C11_TrendingAlwaysKept ==
    (lastOp.op = "trending" /\ ~lastOp.rejected)
    => \A i \in DOMAIN lastOp.symbols :
          lastOp.symbols[i].symbol \in Range(lastOp.stableSymbols)

NoRecentSnapshot(symbol) ==
    SnapshotsSince(stock_trending_snapshots, symbol,
                   lastOp.at - TwentyFourHours) = <<>>

Collides(symbols, table, at) ==
    \E i \in DOMAIN symbols : \E j \in DOMAIN table :
       SameMinute([symbol |-> symbols[i].symbol, created_at |-> at], table[j])

\* C14: a save of no snapshots reports success and leaves the table as it
\* was; a save in which some snapshot collides with a stored row reports
\* failure and stores none of its snapshots.
C14_EmptyOkElseAllOrNothing ==
    run.pc = "stable"
    => /\ run.symbols = <<>>
          => run.saved /\ stock_trending_snapshots = run.before
       /\ (run.symbols # <<>> /\ Collides(run.symbols, run.before, now))
          => ~run.saved /\ stock_trending_snapshots = run.before
       /\ ~run.saved => stock_trending_snapshots = run.before

\* Two snapshots, one colliding and one not: neither is stored.
C14_Witness ==
    /\ run.pc = "stable"
    /\ Len(run.symbols) = 2
    /\ Collides(run.symbols, run.before, now)
    /\ \E i \in DOMAIN run.symbols :
          ~Collides(<<run.symbols[i]>>, run.before, now)
    /\ ~run.saved
    /\ stock_trending_snapshots = run.before

\* C15: a subscribe call that carries previous closes leaves, for every
\* symbol it names, one of the previous closes it gave for that symbol (the
\* one it gave, when it names the symbol once) and leaves the anchors of the
\* other symbols alone; every other step leaves the anchor map as it was.
C15_AnchorLastWriteWins ==
    [][IF lastCall'.op = "subscribe" /\ lastCall'.withPrices
       THEN /\ \A s \in lastCall'.named :
                 /\ s \in DOMAIN priceReferenceMap'
                 /\ priceReferenceMap'[s] \in lastCall'.given[s]
            /\ \A s \in DOMAIN priceReferenceMap' \ lastCall'.named :
                 /\ s \in DOMAIN priceReferenceMap
                 /\ priceReferenceMap'[s] = priceReferenceMap[s]
       ELSE priceReferenceMap' = priceReferenceMap]_vars

\* A symbol ticked against anchor 50 and then subscribed again with anchor 0.
C15_Witness ==
    /\ lastCall.op = "subscribe" /\ lastCall.withPrices
    /\ \E s \in lastCall.named :
          /\ lastCall.given[s] = {0}
          /\ priceReferenceMap[s] = 0
          /\ s \in DOMAIN prices
          /\ prices[s].previousClosePrice = 50

\* C16: the step that opens the connection sends a subscribe message for
\* exactly the tracked symbols; a subscribe call made while the socket is not
\* open leaves the symbols it names tracked; and while the socket is open
\* every tracked symbol is subscribed on it.
C16_OpenSubscribesTracked ==
    [][/\ (wsState = "CONNECTING" /\ wsState' = "OPEN")
          => serverSubs' = subscribedSymbols
       /\ (lastCall'.op = "subscribe" /\ wsState # "OPEN")
          => lastCall'.named \subseteq subscribedSymbols'
       /\ wsState' = "OPEN" => subscribedSymbols' \subseteq serverSubs']_vars

\* Both symbols named by a subscribe call while the socket is connecting.
C16_Witness ==
    /\ wsState = "CONNECTING"
    /\ lastCall.op = "subscribe"
    /\ lastCall.named = Symbols
    /\ subscribedSymbols = Symbols
    /\ serverSubs = {}

NoAttemptAhead == wsState = "NONE" /\ ~timer /\ ~reconnectTimeout

\* C17: a close event leaves a reconnect timer pending exactly when its code
\* is not 1008; after a 1008 close there is no socket and no timer, and from
\* such a state no step creates a socket or a timer.
C17_ReconnectUnlessAuth ==
    [][/\ lastCall'.op = "close"
          => /\ reconnectTimeout' <=> lastCall'.code # 1008
             /\ wsState' = "NONE"
             /\ ~timer'
       /\ NoAttemptAhead => NoAttemptAhead']_vars

C17_Witness ==
    /\ lastCall.op = "close"
    /\ lastCall.code = 1008
    /\ NoAttemptAhead
    /\ subscribedSymbols # {}

\* C18: after an unsubscribe call, none of the symbols it named is tracked.
C18_UnsubscribeUntracks ==
    lastCall.op = "unsubscribe" => lastCall.named \cap subscribedSymbols = {}

\* C19: a step leaves the price record of a symbol that is not tracked
\* before or after it as it was.
C19_NoUpdateAfterUnsubscribe ==
    [][\A s \in Symbols :
          (s \notin subscribedSymbols /\ s \notin subscribedSymbols')
          => /\ s \in DOMAIN prices' <=> s \in DOMAIN prices
             /\ s \in DOMAIN prices => prices'[s] = prices[s]]_vars

\* C20: the percentChange of every record getStockDataWithOHLCV returns is
\* (price - previousClosePrice) / previousClosePrice * 100 of that record,
\* and 0 when its previousClosePrice is 0.
C20_ResolvedPercentMatchesFormula ==
    (lastOp.op = "resolve" /\ lastOp.result # Null)
    => lastOp.result.percentChange =
          IF lastOp.result.previousClosePrice > 0
          THEN Rat((lastOp.result.price - lastOp.result.previousClosePrice) * 100,
                   lastOp.result.previousClosePrice)
          ELSE Zero

PricesFor(data, s) ==
    LET mine == SelectSeq(data, LAMBDA trade : trade.s = s)
    IN  [i \in DOMAIN mine |-> mine[i].p]

\* C22: whatever trade message arrives next, the record it leaves for each
\* symbol it names has as change the price of the symbol's last trade minus
\* the price of the trade before it (in the message, or else the stored one),
\* and 0 when there is no trade before it; and its percentChange is the one
\* the same last trade gives when no tick was seen before.
C22_DeltaFromPriorTick ==
    \A data \in SeqsUpTo(Trades, MaxTrades) :
       LET after == ApplyTrades(prices, data)
       IN  \A s \in {data[i].s : i \in DOMAIN data} :
              LET ps == PricesFor(data, s)
                  n == Len(ps)
                  last == CHOOSE trade \in Trades : trade.s = s /\ trade.p = ps[n]
              IN  /\ after[s].price = ps[n]
                  /\ after[s].change =
                        IF n >= 2 THEN ps[n] - ps[n - 1]
                        ELSE IF s \in DOMAIN prices THEN ps[n] - prices[s].price
                        ELSE 0
                  /\ after[s].percentChange =
                        ApplyTrades(<<>>, <<last>>)[s].percentChange

\* Anchor 50, ticks 48 then 52: delta +4 while percentChange is +4 against
\* the anchor (against the prior tick it would be 25/3).
C22_Witness ==
    \E s \in DOMAIN prices :
       /\ s \in DOMAIN priceReferenceMap
       /\ priceReferenceMap[s] = 50
       /\ prices[s].price = 52
       /\ prices[s].change = 4
       /\ prices[s].percentChange = RatInt(4)

\* C28: once the cleanup has run, no step leaves a timer pending or creates
\* a socket.
C28_NoReconnectAfterCleanup ==
    [][~mounted
       => /\ ~timer'
          /\ ~reconnectTimeout'
          /\ wsState = "NONE" => wsState' = "NONE"]_vars

ScoresSince(since) ==
    LET rows == SelectSeq(stock_trending_snapshots,
                    LAMBDA r : r.symbol = trendingDimensions.symbol /\ r.created_at >= since)
    IN  [i \in DOMAIN rows |-> rows[i].trending_score]

SixHourScores == ScoresSince(now - SixHours)
AllScores == ScoresSince(now - TwentyFourHours)

SumOfSquares(q) == SumSeq([i \in DOMAIN q |-> q[i] * q[i]])

C24_PopulationStdDev ==
    trendingDimensions.result # Null
    => LET n6 == Len(SixHourScores)
           s6 == SumSeq(SixHourScores)
       IN  trendingDimensions.result.sixHour.volatility =
              IF n6 < 2 THEN Sqrt(Zero)
              ELSE Sqrt(Rat(n6 * SumOfSquares(SixHourScores) - s6 * s6, n6 * n6))

\* Two six-hour snapshots, scores 45 and 55: volatility 5, the root of 25
\* (the sample deviation would be the root of 50).
C24_Witness ==
    /\ trendingDimensions.result # Null
    /\ trendingDimensions.result.sixHour.snapshotCount = 2
    /\ trendingDimensions.result.sixHour.volatility = Sqrt(RatInt(25))

\* C25: the peakScore of a result is the greatest score of the 24-hour
\* window and its peakTime the creation time of the earliest snapshot of the
\* window with that score.
C25_PeakTimeIsEarliest ==
    trendingDimensions.result # Null
    => LET rows == SelectSeq(stock_trending_snapshots,
                       LAMBDA r : /\ r.symbol = trendingDimensions.symbol
                                  /\ r.created_at >= now - TwentyFourHours)
           peak == trendingDimensions.result.twentyFourHour.peakScore
           peakTime == trendingDimensions.result.twentyFourHour.peakTime
       IN  /\ \A i \in DOMAIN rows : rows[i].trending_score <= peak
           /\ \E i \in DOMAIN rows :
                 /\ rows[i].trending_score = peak
                 /\ rows[i].created_at = peakTime
           /\ \A i \in DOMAIN rows :
                 rows[i].trending_score = peak => peakTime <= rows[i].created_at

C21_NoZeroPlaceholders ==
    (page.op = "page" /\ ~page.rejected)
    => \A i \in DOMAIN page.symbols :
          page.quotes[i] = Null
          => /\ page.symbols[i].price # 0
             /\ page.symbols[i].previousClosePrice # 0
             /\ page.symbolsWithPrices[i].previousClosePrice # 0

\* The rank the symbol had in the newest poll saved before the page's own.
SavedBefore(symbol) ==
    SelectSeq(stock_snapshots,
        LAMBDA r : r.symbol = symbol /\ r.timestamp < page.at)

\* C26: the rankDelta a page reports for a symbol is its rank in the newest
\* poll saved before this one minus its rank on the page, and 0 when no
\* earlier poll saved the symbol.
C26_RankDeltaAgainstPrecedingPoll ==
    (page.op = "page" /\ ~page.rejected /\ page.rankIo = "ok")
    => \A i \in DOMAIN page.symbols :
          LET earlier == SavedBefore(page.symbols[i].symbol)
          IN  page.symbols[i].rankDelta =
                 IF earlier = <<>> THEN 0
                 ELSE earlier[Len(earlier)].rank - page.symbols[i].rank

Weekday(t) == GetDay(t) \in 1..5

IsClose(t) == Weekday(t) /\ t % Day = 16 * 60

IsOpen(t) == Weekday(t) /\ t % Day = 9 * 60 + 30

\* C30: a reported lastClose is a weekday 16:00 that is not after the clock
\* reading, with no weekday 16:00 between it and the reading; a reported
\* nextOpen is a weekday 09:30 after the reading.
C30_CloseBehindOpenAhead ==
    /\ "lastClose" \in DOMAIN marketStatus
       => /\ IsClose(marketStatus.lastClose)
          /\ marketStatus.lastClose <= etTime
          /\ \A t \in (marketStatus.lastClose + 1)..etTime : ~IsClose(t)
    /\ "nextOpen" \in DOMAIN marketStatus
       => /\ IsOpen(marketStatus.nextOpen)
          /\ marketStatus.nextOpen > etTime

====
